---- MODULE Spec2Model ----
(***************************************************************************)
(* A model of the Texas hold'em calculator of poker_calculator.py: the     *)
(* card and deck model, HandEvaluator, and PokerCalculator's equity        *)
(* simulation and outs scan.  Python lists are sequences, tuples are       *)
(* tuples, random.sample is a nondeterministic choice.                     *)
(***************************************************************************)
EXTENDS Integers, Sequences, FiniteSets, TLC

(***************************************************************************)
(* Card model (class Card, class Deck)                                     *)
(***************************************************************************)

\* Card.SUITS: spades, hearts, diamonds, clubs
SUITS == <<"s", "h", "d", "c">>

\* Card.RANKS
RANKS == <<"2", "3", "4", "5", "6", "7", "8", "9", "10", "J", "Q", "K", "A">>

\* Card.RANK_VALUES = {rank: i for i, rank in enumerate(RANKS)}
RANK_VALUES == [r \in {RANKS[i] : i \in 1..Len(RANKS)} |->
                  (CHOOSE i \in 1..Len(RANKS) : RANKS[i] = r) - 1]

\* Card.__init__
Card(rank, suit) == [rank |-> rank, suit |-> suit, value |-> RANK_VALUES[rank]]

\* Card.__eq__: rank and suit both match
CardEq(a, b) == a.rank = b.rank /\ a.suit = b.suit

\* Deck.__init__: [Card(rank, suit) for suit in SUITS for rank in RANKS]
NewDeck == [i \in 1..(Len(SUITS) * Len(RANKS)) |->
              Card(RANKS[((i - 1) % Len(RANKS)) + 1],
                   SUITS[((i - 1) \div Len(RANKS)) + 1])]

\* a filter that matches the rank alone
RemoveRank(deck, card) == SelectSeq(deck, LAMBDA c : ~(c.rank = card.rank))

\* the list comprehension of Deck.remove_cards for one card
RemoveOne(deck, card) ==
  SelectSeq(deck, LAMBDA c : ~(c.rank = card.rank /\ c.suit = card.suit))

\* Deck.remove_cards: filter the deck once per card of the argument
RECURSIVE remove_cards(_, _)
remove_cards(deck, cards) ==
  IF cards = <<>> THEN deck
  ELSE remove_cards(RemoveOne(deck, Head(cards)), Tail(cards))

(***************************************************************************)
(* Python comparisons                                                      *)
(***************************************************************************)

MinOf(S) == CHOOSE x \in S : \A y \in S : x <= y

\* list > list: the first differing element decides, else the longer list
ListGT(a, b) ==
  LET n == IF Len(a) < Len(b) THEN Len(a) ELSE Len(b)
      d == {i \in 1..n : a[i] # b[i]}
  IN  IF d = {} THEN Len(a) > Len(b) ELSE a[MinOf(d)] > b[MinOf(d)]

\* tuple > tuple for (hand_type, key_cards)
HandGT(x, y) == IF x[1] # y[1] THEN x[1] > y[1] ELSE ListGT(x[2], y[2])

\* the ranks left in the order of the input
Unsorted(ranks) == ranks

\* sorted(ranks, reverse=True)
SortedDesc(ranks) == SortSeq(ranks, LAMBDA a, b : a > b)

\* sorted(ranks)
SortedAsc(ranks) == SortSeq(ranks, LAMBDA a, b : a < b)

(***************************************************************************)
(* HandEvaluator                                                           *)
(***************************************************************************)

\* HandEvaluator._is_straight
is_straight_of(ranks) ==
  LET sorted_ranks == SortedAsc(ranks)
  IN  \A i \in 1..(Len(sorted_ranks) - 1) :
        sorted_ranks[i + 1] - sorted_ranks[i] = 1

\* Counter(ranks).items(): (rank, count) in order of first occurrence
CounterItems(ranks) ==
  LET first == SelectSeq([i \in 1..Len(ranks) |-> i],
                 LAMBDA i : \A j \in 1..(i - 1) : ranks[j] # ranks[i])
  IN  [k \in 1..Len(first) |->
         <<ranks[first[k]],
           Cardinality({j \in 1..Len(ranks) : ranks[j] = ranks[first[k]]})>>]

\* [r for r, count in rank_counts.items() if count == n]
RanksWithCount(items, n) ==
  LET sel == SelectSeq(items, LAMBDA it : it[2] = n)
  IN  [k \in 1..Len(sel) |-> sel[k][1]]

\* n in rank_counts.values()
HasCount(items, n) == \E k \in 1..Len(items) : items[k][2] = n

\* the ranks with nothing left out
RanksAll(ranks, excluded) == ranks

\* [r for r in ranks if r not in excluded]
RanksNotIn(ranks, excluded) == SelectSeq(ranks, LAMBDA r : r \notin excluded)

SeqRange(s) == {s[i] : i \in 1..Len(s)}

\* sorted_ranks of A-5-4-3-2
WheelRanks == <<12, 3, 2, 1, 0>>

\* the wheel's key with the ace left high
WheelKeyAceHigh == <<12, 3, 2, 1, 0>>

\* the wheel's key: the ace counts below the 2
WheelKey == <<3, 2, 1, 0, -1>>

\* sorted_ranks of 10-J-Q-K-A
RoyalRanks == <<12, 11, 10, 9, 8>>

\* HandEvaluator._evaluate_five_cards
evaluate_five_cards(cards) ==
  LET ranks == [i \in 1..Len(cards) |-> cards[i].value]
      suits == {cards[i].suit : i \in 1..Len(cards)}
      rank_counts == CounterItems(ranks)
      is_flush == Cardinality(suits) = 1
      sorted0 == SortedDesc(ranks)
      wheel == sorted0 = WheelRanks
      is_straight == wheel \/ is_straight_of(sorted0)
      sorted_ranks == IF wheel THEN WheelKey ELSE sorted0
      pairs == RanksWithCount(rank_counts, 2)
  IN  IF is_flush /\ is_straight /\ sorted_ranks = RoyalRanks
        THEN <<9, sorted_ranks>>
      ELSE IF is_flush /\ is_straight
        THEN <<8, sorted_ranks>>
      ELSE IF HasCount(rank_counts, 4)
        THEN LET four_rank == RanksWithCount(rank_counts, 4)[1]
                 kicker == RanksNotIn(ranks, {four_rank})[1]
             IN  <<7, <<four_rank, kicker>>>>
      ELSE IF HasCount(rank_counts, 3) /\ HasCount(rank_counts, 2)
        THEN <<6, <<RanksWithCount(rank_counts, 3)[1], pairs[1]>>>>
      ELSE IF is_flush
        THEN <<5, sorted_ranks>>
      ELSE IF is_straight
        THEN <<4, sorted_ranks>>
      ELSE IF HasCount(rank_counts, 3)
        THEN LET three_rank == RanksWithCount(rank_counts, 3)[1]
             IN  <<3, <<three_rank>> \o SortedDesc(RanksNotIn(ranks, {three_rank}))>>
      ELSE IF Len(pairs) = 2
        THEN LET sp == SortedDesc(pairs)
             IN  <<2, sp \o <<RanksNotIn(ranks, SeqRange(sp))[1]>>>>
      ELSE IF Len(pairs) = 1
        THEN <<1, <<pairs[1]>> \o SortedDesc(RanksNotIn(ranks, {pairs[1]}))>>
      ELSE <<0, sorted_ranks>>

\* itertools.combinations(range(n), 5): index tuples in lexicographic order
RECURSIVE CombosFrom(_, _, _)
CombosFrom(lo, n, k) ==
  IF k = 0 THEN << <<>> >>
  ELSE IF n - lo + 1 < k THEN <<>>
  ELSE LET with == CombosFrom(lo + 1, n, k - 1)
       IN  [i \in 1..Len(with) |-> <<lo>> \o with[i]] \o CombosFrom(lo + 1, n, k)

\* evaluate_hand returns (0, []) below this many cards
MinHand == 5

\* the size of the combinations evaluate_hand ranks
HandSize == 5

\* the largest hand given to evaluate_hand (hole cards plus a full board)
MaxHand == 7

\* combinations(cards, 5) as positions, for every length the model evaluates
Combos5 == [n \in HandSize..(MaxHand + 2) |-> CombosFrom(1, n, HandSize)]

\* a running-best update that looks at the hand type alone
BetterType(hand, best_hand) == hand[1] > best_hand[1]

\* the running-best update of the loop body of evaluate_hand
BetterHand(hand, best_hand) ==
  hand[1] > best_hand[1] \/ (hand[1] = best_hand[1] /\ ListGT(hand[2], best_hand[2]))

\* the for loop of evaluate_hand over the combinations from position i on
RECURSIVE BestFrom(_, _, _, _)
BestFrom(cards, combos, i, best_hand) ==
  IF i > Len(combos) THEN best_hand
  ELSE LET combo == [k \in 1..HandSize |-> cards[combos[i][k]]]
           hand == evaluate_five_cards(combo)
       IN  IF BetterHand(hand, best_hand)
             THEN BestFrom(cards, combos, i + 1, hand)
             ELSE BestFrom(cards, combos, i + 1, best_hand)

\* HandEvaluator.evaluate_hand
evaluate_hand(cards) ==
  IF Len(cards) < MinHand THEN <<0, <<>>>>
  ELSE BestFrom(cards, Combos5[Len(cards)], 1, <<0, <<>>>>)

(***************************************************************************)
(* State                                                                   *)
(***************************************************************************)

VARIABLES
  cards,                \* the list given to evaluate_hand
  best_hand,            \* what evaluate_hand returned
  epc,                  \* "ready" before the call, "done" after it
  hole_cards,           \* argument of calculate_win_probability / calculate_outs
  community_cards,      \* argument of calculate_win_probability / calculate_outs
  num_opponents,        \* argument of calculate_win_probability
  num_simulations,      \* argument of calculate_win_probability
  wins, ties, losses,   \* the counters of calculate_win_probability
  trial,                \* the trials completed by the simulation loop
  sim_deck,             \* sim_deck.cards
  remaining_community,  \* the community cards drawn in the current trial
  my_hand,              \* the caller's rank in the current trial
  opponent_hands,       \* the opponents' ranks in the current trial
  opponent_holes,       \* every opponent_hole drawn in the current trial
  spc,                  \* where calculate_win_probability is
  sim_result,           \* the dictionary calculate_win_probability returns
  deck,                 \* deck.cards of calculate_outs
  current_hand_type,    \* calculate_outs: the category of hole + community
  scan,                 \* calculate_outs: the deck cards looked at so far
  improving_cards,      \* calculate_outs: the cards counted so far
  opc,                  \* where calculate_outs is
  outs_result,          \* the dictionary calculate_outs returns
  deck_cards,           \* self.cards of a Deck
  removed,              \* every card passed to remove_cards of that Deck so far
  last_call,            \* the last call on that Deck and its argument
  draw_result,          \* what the last Deck.draw returned or raised
  rng,                  \* the state of the random module
  seed,                 \* the state given to random.seed before each call
  first_result,         \* what the first of two seeded calls returned
  selected_hole_cards,       \* st.session_state.selected_hole_cards
  selected_community_cards,  \* st.session_state.selected_community_cards
  game_stage                 \* st.session_state.game_stage

evalVars == <<cards, best_hand, epc>>

inputVars == <<hole_cards, community_cards, num_opponents, num_simulations>>

simVars == <<wins, ties, losses, trial, sim_deck, remaining_community, my_hand,
             opponent_hands, opponent_holes, spc, sim_result>>

outsVars == <<deck, current_hand_type, scan, improving_cards, opc, outs_result>>

deckVars == <<deck_cards, removed, last_call, draw_result>>

seedVars == <<rng, seed, first_result>>

uiVars == <<selected_hole_cards, selected_community_cards, game_stage>>

vars == <<evalVars, inputVars, simVars, outsVars, deckVars, seedVars, uiVars>>

NoHand == <<-1, <<>>>>

NoResult == [none |-> TRUE]

\* nothing is being evaluated
EvalIdle == cards = <<>> /\ best_hand = NoHand /\ epc = "idle"

\* no simulation is running
SimIdle ==
  /\ wins = 0 /\ ties = 0 /\ losses = 0 /\ trial = 0
  /\ sim_deck = <<>> /\ remaining_community = <<>>
  /\ my_hand = NoHand /\ opponent_hands = <<>> /\ opponent_holes = <<>>
  /\ spc = "idle" /\ sim_result = NoResult

\* no outs scan is running
OutsIdle ==
  /\ deck = <<>> /\ current_hand_type = -1 /\ scan = 0
  /\ improving_cards = <<>> /\ opc = "idle" /\ outs_result = NoResult

NoInput ==
  /\ hole_cards = <<>> /\ community_cards = <<>>
  /\ num_opponents = 0 /\ num_simulations = 0

\* no Deck object is being followed
DeckIdle ==
  /\ deck_cards = <<>> /\ removed = {}
  /\ last_call = [op |-> "idle"] /\ draw_result = NoResult

\* the random module as the interpreter starts it: seeded from the system's entropy
Entropy == [seeded |-> FALSE]

\* random.seed was not called
SeedIdle == rng = Entropy /\ seed = Entropy /\ first_result = NoResult

\* the card picker is not shown
UiIdle ==
  /\ selected_hole_cards = <<>> /\ selected_community_cards = <<>>
  /\ game_stage = "idle"

(***************************************************************************)
(* Inputs of evaluate_hand                                                 *)
(***************************************************************************)

\* how many cards of each family below the hands are drawn from
FamilySize == 10

\* high cards: royal and straight flush, flush, quads, full house, pairs
HighFamily ==
  << Card("A", "s"), Card("K", "s"), Card("Q", "s"), Card("J", "s"),
     Card("10", "s"), Card("9", "s"), Card("A", "h"), Card("A", "d"),
     Card("A", "c"), Card("K", "h"), Card("K", "d"), Card("9", "h") >>

\* low cards: the wheel, the six-high straight, the steel wheel
LowFamily ==
  << Card("A", "h"), Card("2", "s"), Card("3", "d"), Card("4", "c"),
     Card("5", "h"), Card("6", "d"), Card("A", "s"), Card("5", "s"),
     Card("2", "h"), Card("3", "s"), Card("4", "s"), Card("6", "s") >>

Prefix(s, n) == SubSeq(s, 1, IF n < Len(s) THEN n ELSE Len(s))

\* the sub-lists of family (cards kept in the family's order) of the lengths evaluated
SubHands(family) ==
  LET pool == Prefix(family, FamilySize)
      pick(S) == SelectSeq([i \in 1..Len(pool) |-> i], LAMBDA i : i \in S)
  IN  { [k \in 1..Cardinality(S) |-> pool[pick(S)[k]]] :
          S \in {T \in SUBSET (1..Len(pool)) : Cardinality(T) \in MinHand..MaxHand} }

\* the cards whose every ordering is evaluated
PermDeck ==
  << Card("A", "s"), Card("A", "h"), Card("A", "d"), Card("2", "s"),
     Card("2", "h"), Card("3", "d"), Card("4", "c") >>

\* the duplicate-free lists of length n over the cards of pool
RECURSIVE InjSeqs(_, _)
InjSeqs(pool, n) ==
  IF n = 0 THEN {<<>>}
  ELSE UNION { {Append(s, pool[i]) : i \in {j \in 1..Len(pool) : pool[j] \notin SeqRange(s)}} :
               s \in InjSeqs(pool, n - 1) }

PermHands == UNION {InjSeqs(PermDeck, n) : n \in MinHand..MaxHand}

EvalHands == SubHands(HighFamily) \cup SubHands(LowFamily)

EvalInit == /\ cards \in EvalHands
            /\ best_hand = NoHand
            /\ epc = "ready"
            /\ NoInput /\ SimIdle /\ OutsIdle
            /\ DeckIdle /\ SeedIdle /\ UiIdle

PermInit == /\ cards \in PermHands
            /\ best_hand = NoHand
            /\ epc = "ready"
            /\ NoInput /\ SimIdle /\ OutsIdle
            /\ DeckIdle /\ SeedIdle /\ UiIdle

\* a call of HandEvaluator.evaluate_hand(cards)
Evaluate ==
  /\ epc = "ready"
  /\ best_hand' = evaluate_hand(cards)
  /\ epc' = "done"
  /\ UNCHANGED <<cards, inputVars, simVars, outsVars,
                 deckVars, seedVars, uiVars>>

SpecEval == EvalInit /\ [][Evaluate]_vars

SpecPerm == PermInit /\ [][Evaluate]_vars

(***************************************************************************)
(* evaluate_hand called with fewer than five or more than seven cards      *)
(***************************************************************************)

\* the sub-lists of family (cards kept in the family's order) of the given sizes
SubLists(family, sizes) ==
  LET pool == Prefix(family, FamilySize)
      pick(S) == SelectSeq([i \in 1..Len(pool) |-> i], LAMBDA i : i \in S)
  IN  { [k \in 1..Cardinality(S) |-> pool[pick(S)[k]]] :
          S \in {T \in SUBSET (1..Len(pool)) : Cardinality(T) \in sizes} }

\* lists of no card up to four cards, and of one card more than hole cards and board
OddSizes == (0..(MinHand - 1)) \cup {MaxHand + 1}

OddHands == SubLists(HighFamily, OddSizes) \cup SubLists(LowFamily, OddSizes)

OddInit == /\ cards \in OddHands
           /\ best_hand = NoHand
           /\ epc = "ready"
           /\ NoInput /\ SimIdle /\ OutsIdle
           /\ DeckIdle /\ SeedIdle /\ UiIdle

SpecEvalOdd == OddInit /\ [][Evaluate]_vars

(***************************************************************************)
(* _evaluate_five_cards on its own                                         *)
(***************************************************************************)

Reverse(s) == [i \in 1..Len(s) |-> s[Len(s) + 1 - i]]

\* five distinct cards, in the family's order and in the opposite order
FiveHands ==
  LET inOrder == SubLists(HighFamily, {HandSize}) \cup SubLists(LowFamily, {HandSize})
  IN  inOrder \cup {Reverse(h) : h \in inOrder}

FiveInit == /\ cards \in FiveHands
            /\ best_hand = NoHand
            /\ epc = "ready"
            /\ NoInput /\ SimIdle /\ OutsIdle
            /\ DeckIdle /\ SeedIdle /\ UiIdle

\* a call of HandEvaluator._evaluate_five_cards(cards)
EvaluateFive ==
  /\ epc = "ready"
  /\ best_hand' = evaluate_five_cards(cards)
  /\ epc' = "done"
  /\ UNCHANGED <<cards, inputVars, simVars, outsVars,
                 deckVars, seedVars, uiVars>>

SpecFive == FiveInit /\ [][EvaluateFive]_vars

(***************************************************************************)
(* PokerCalculator.calculate_win_probability                               *)
(***************************************************************************)

\* HandEvaluator.hand_name: the ten category names, "unknown" otherwise
\* (the source's names are Chinese; these are their translations)
hand_name(hand_type) ==
  CASE hand_type = 9 -> "royal flush"
    [] hand_type = 8 -> "straight flush"
    [] hand_type = 7 -> "four of a kind"
    [] hand_type = 6 -> "full house"
    [] hand_type = 5 -> "flush"
    [] hand_type = 4 -> "straight"
    [] hand_type = 3 -> "three of a kind"
    [] hand_type = 2 -> "two pair"
    [] hand_type = 1 -> "one pair"
    [] hand_type = 0 -> "high card"
    [] OTHER -> "unknown"

\* the label get_hand_strength gives to fewer than five cards
NoCompleteHand == "no complete hand yet"

\* PokerCalculator.get_hand_strength
get_hand_strength(hole, community) ==
  LET all_cards == hole \o community
  IN  IF Len(all_cards) >= MinHand
        THEN <<evaluate_hand(all_cards)[1], hand_name(evaluate_hand(all_cards)[1])>>
        ELSE <<-1, NoCompleteHand>>

\* the community cards of a full board
BoardSize == 5

\* the hole cards dealt to an opponent
HoleSize == 2

\* how many outcomes of one random.sample call the model follows
RandRange == 2

\* the largest num_opponents and num_simulations the model is called with
MaxOpponents == 2
MaxSims == 2

\* Deck.draw: random.sample(self.cards, n) gives any n cards of the deck; the
\* model follows the samples of n adjacent cards that start at one of the
\* first RandRange positions
draw(d, n) ==
  {SubSeq(d, j, j + n - 1) : j \in {k \in 1..RandRange : k + n - 1 <= Len(d)}}

\* how many states the seeded generator has
SeedSpace == 8

\* random.seed(s)
Seeded(s) == [seeded |-> TRUE, state |-> s]

\* the generator's step from one state to the next
rng_next(g) == Seeded((5 * g.state + 3) % SeedSpace)

\* the outcome, among k, that the generator's state selects
rng_choice(g, k) == ((g.state \div 2) % k) + 1

\* Deck.draw under the generator g: <<sample, generator afterwards>>; unseeded
\* any sample may come, seeded the generator's state selects it
draw_with(g, d, n) ==
  IF g.seeded
    THEN {<<s, rng_next(g)>> :
            s \in {SubSeq(d, j, j + n - 1) :
                     j \in {k \in {rng_choice(g, RandRange)} : k + n - 1 <= Len(d)}}}
    ELSE {<<s, g>> : s \in draw(d, n)}

\* a deck that is kept from the trial before
kept_deck(stale) == IF stale = <<>> THEN NewDeck ELSE stale

\* sim_deck = Deck(): a new deck, whatever sim_deck held before
fresh_deck(stale) == NewDeck

\* a removal that leaves the deck as it is
remove_nothing(d, dealt) == d

\* sim_deck.remove_cards of the cards a trial has drawn
remove_dealt(d, dealt) == remove_cards(d, dealt)

\* the last hand of the list
LastHand(hands) == hands[Len(hands)]

\* max(opponent_hands): the first hand no later hand exceeds
RECURSIVE PyMaxFrom(_, _, _)
PyMaxFrom(hands, i, m) ==
  IF i > Len(hands) THEN m
  ELSE PyMaxFrom(hands, i + 1, IF HandGT(hands[i], m) THEN hands[i] ELSE m)

PyMax(hands) == PyMaxFrom(hands, 2, hands[1])

\* a tally that counts no tie
TallyNoTie(w, t, l, mine, best_opponent_hand) ==
  IF HandGT(mine, best_opponent_hand) THEN <<w + 1, t, l>>
  ELSE IF mine = best_opponent_hand THEN <<w, t, l>>
  ELSE <<w, t, l + 1>>

\* the if / elif / else that counts a trial
Tally(w, t, l, mine, best_opponent_hand) ==
  IF HandGT(mine, best_opponent_hand) THEN <<w + 1, t, l>>
  ELSE IF mine = best_opponent_hand THEN <<w, t + 1, l>>
  ELSE <<w, t, l + 1>>

H(r, su) == Card(r, su)

\* the (hole cards, community cards) the simulation is called with
SimInputs ==
  { << <<H("9", "c"), H("9", "d")>>, <<H("9", "h"), H("4", "s"), H("4", "d")>> >>,
    << <<H("2", "h"), H("3", "h")>>,
       <<H("A", "s"), H("K", "h"), H("Q", "d"), H("J", "c"), H("10", "s")>> >>,
    << <<H("A", "s"), H("A", "h")>>, <<>> >>,
    << <<H("2", "s"), H("7", "d")>>,
       <<H("3", "s"), H("8", "h"), H("K", "c"), H("A", "d")>> >>,
    << <<H("7", "c"), H("7", "d")>>, <<H("A", "h"), H("K", "d")>> >>,
    << <<H("3", "s"), H("6", "h")>>,
       <<H("2", "s"), H("7", "d"), H("9", "c"), H("J", "h"), H("K", "d")>> >> }

SimInit ==
  /\ \E inp \in SimInputs : hole_cards = inp[1] /\ community_cards = inp[2]
  /\ num_opponents \in 1..MaxOpponents
  /\ num_simulations \in 1..MaxSims
  /\ wins = 0 /\ ties = 0 /\ losses = 0 /\ trial = 0
  /\ sim_deck = <<>> /\ remaining_community = <<>>
  /\ my_hand = NoHand /\ opponent_hands = <<>> /\ opponent_holes = <<>>
  /\ spc = "loop" /\ sim_result = NoResult
  /\ EvalIdle /\ OutsIdle
  /\ DeckIdle /\ SeedIdle /\ UiIdle

\* one pass of the simulation loop up to the caller's hand: the deck is
\* rebuilt, the board completed and the caller's seven cards evaluated
BeginTrial ==
  /\ spc = "loop"
  /\ trial < num_simulations
  /\ LET known_cards == hole_cards \o community_cards
         fresh == remove_dealt(fresh_deck(sim_deck), known_cards)
         cards_needed == BoardSize - Len(community_cards)
     IN  \E pick \in (IF cards_needed > 0 THEN draw_with(rng, fresh, cards_needed)
                                          ELSE {<<<<>>, rng>>}) :
           /\ remaining_community' = pick[1]
           /\ rng' = pick[2]
           /\ sim_deck' = remove_dealt(fresh, pick[1])
           /\ my_hand' = evaluate_hand(hole_cards \o (community_cards \o pick[1]))
  /\ opponent_hands' = <<>>
  /\ opponent_holes' = <<>>
  /\ spc' = "opponents"
  /\ UNCHANGED <<wins, ties, losses, trial, sim_result, evalVars, inputVars, outsVars,
                 deckVars, seed, first_result, uiVars>>

\* one pass of the loop over the opponents
DealOpponent ==
  /\ spc = "opponents"
  /\ Len(opponent_hands) < num_opponents
  /\ \E pick \in draw_with(rng, sim_deck, HoleSize) :
       LET opponent_hole == pick[1]
       IN  /\ opponent_hands' =
                Append(opponent_hands,
                       evaluate_hand(opponent_hole \o (community_cards \o remaining_community)))
           /\ opponent_holes' = Append(opponent_holes, opponent_hole)
           /\ sim_deck' = remove_dealt(sim_deck, opponent_hole)
           /\ rng' = pick[2]
  /\ UNCHANGED <<wins, ties, losses, trial, remaining_community, my_hand, spc,
                 sim_result, evalVars, inputVars, outsVars,
                 deckVars, seed, first_result, uiVars>>

\* the comparison that ends a trial
Compare ==
  /\ spc = "opponents"
  /\ Len(opponent_hands) = num_opponents
  /\ LET counted == Tally(wins, ties, losses, my_hand, PyMax(opponent_hands))
     IN  wins' = counted[1] /\ ties' = counted[2] /\ losses' = counted[3]
  /\ trial' = trial + 1
  /\ spc' = "loop"
  /\ UNCHANGED <<sim_deck, remaining_community, my_hand, opponent_hands,
                 opponent_holes, sim_result, evalVars, inputVars, outsVars,
                 deckVars, seedVars, uiVars>>

\* the current_hand entry of the returned dictionary
current_hand_label(hole, community) == hand_name(evaluate_hand(hole \o community)[1])

\* the return of calculate_win_probability; a rate is <<count, num_simulations>>
ReturnRates ==
  /\ spc = "loop"
  /\ trial = num_simulations
  /\ sim_result' = [win_rate |-> <<wins, num_simulations>>,
                    tie_rate |-> <<ties, num_simulations>>,
                    loss_rate |-> <<losses, num_simulations>>,
                    simulations |-> num_simulations,
                    current_hand |-> current_hand_label(hole_cards, community_cards)]
  /\ spc' = "done"
  /\ UNCHANGED <<wins, ties, losses, trial, sim_deck, remaining_community, my_hand,
                 opponent_hands, opponent_holes, evalVars, inputVars, outsVars,
                 deckVars, seedVars, uiVars>>

SimNext == BeginTrial \/ DealOpponent \/ Compare \/ ReturnRates

SpecSim == SimInit /\ [][SimNext]_vars

(***************************************************************************)
(* calculate_win_probability called with arguments outside its contract    *)
(***************************************************************************)

\* (hole cards, community cards) a caller must not pass: one and three hole
\* cards, six community cards, a card twice among the hole cards, and a card
\* both in the hole cards and on the board
BadInputs ==
  { << <<H("A", "s")>>, <<H("K", "h"), H("Q", "d"), H("J", "c")>> >>,
    << <<H("A", "s"), H("A", "h"), H("A", "d")>>, <<>> >>,
    << <<H("9", "c"), H("9", "d")>>,
       <<H("9", "h"), H("4", "s"), H("4", "d"), H("2", "c"), H("7", "h"), H("K", "s")>> >>,
    << <<H("A", "s"), H("A", "s")>>, <<H("K", "h"), H("Q", "d"), H("J", "c")>> >>,
    << <<H("A", "s"), H("K", "h")>>, <<H("A", "s"), H("2", "d"), H("3", "c")>> >> }

\* the function is entered with such arguments: it has no check before the loop
UncheckedInit ==
  /\ \E inp \in BadInputs : hole_cards = inp[1] /\ community_cards = inp[2]
  /\ num_opponents \in 1..MaxOpponents
  /\ num_simulations \in 1..MaxSims
  /\ wins = 0 /\ ties = 0 /\ losses = 0 /\ trial = 0
  /\ sim_deck = <<>> /\ remaining_community = <<>>
  /\ my_hand = NoHand /\ opponent_hands = <<>> /\ opponent_holes = <<>>
  /\ spc = "loop" /\ sim_result = NoResult
  /\ EvalIdle /\ OutsIdle
  /\ DeckIdle /\ SeedIdle /\ UiIdle

SpecSimUnchecked == UncheckedInit /\ [][SimNext]_vars

(***************************************************************************)
(* calculate_win_probability called twice after random.seed                *)
(***************************************************************************)

\* random.seed(s) and the first call
TwinInit ==
  /\ \E inp \in SimInputs : hole_cards = inp[1] /\ community_cards = inp[2]
  /\ num_opponents \in 1..MaxOpponents
  /\ num_simulations \in 1..MaxSims
  /\ seed \in {Seeded(s) : s \in 0..(SeedSpace - 1)}
  /\ rng = seed
  /\ first_result = NoResult
  /\ wins = 0 /\ ties = 0 /\ losses = 0 /\ trial = 0
  /\ sim_deck = <<>> /\ remaining_community = <<>>
  /\ my_hand = NoHand /\ opponent_hands = <<>> /\ opponent_holes = <<>>
  /\ spc = "loop" /\ sim_result = NoResult
  /\ EvalIdle /\ OutsIdle /\ DeckIdle /\ UiIdle

\* random.seed(s) again and the second call with the same arguments: the
\* counters start at 0, every other local is assigned before it is read
SecondCall ==
  /\ spc = "done"
  /\ first_result = NoResult
  /\ first_result' = sim_result
  /\ rng' = seed
  /\ wins' = 0 /\ ties' = 0 /\ losses' = 0 /\ trial' = 0
  /\ sim_result' = NoResult
  /\ spc' = "loop"
  /\ UNCHANGED <<sim_deck, remaining_community, my_hand, opponent_hands,
                 opponent_holes, seed, evalVars, inputVars, outsVars, deckVars, uiVars>>

TwinNext == SimNext \/ SecondCall

SpecTwin == TwinInit /\ [][TwinNext]_vars

(***************************************************************************)
(* PokerCalculator.calculate_outs                                          *)
(***************************************************************************)

\* a river test that lets a five-card board through
PastRiver(community) == Len(community) > BoardSize

\* the test of the early return of calculate_outs
AtRiver(community) == Len(community) >= BoardSize

\* a comparison that also counts a card that keeps the category
ImprovesOrKeeps(new_hand_type, hand_type) == new_hand_type >= hand_type

\* the test that counts a card as an out
Improves(new_hand_type, hand_type) == new_hand_type > hand_type

\* the improving cards shown in the result
SampleSize == 10

\* the (hole cards, community cards) calculate_outs is called with
OutsInputs ==
  { << <<H("A", "s"), H("K", "s")>>, <<H("2", "s"), H("7", "s"), H("9", "d")>> >>,
    << <<H("9", "c"), H("9", "d")>>,
       <<H("9", "h"), H("4", "s"), H("K", "d"), H("2", "c")>> >>,
    << <<H("9", "c"), H("9", "d")>>,
       <<H("9", "h"), H("4", "s"), H("K", "d"), H("2", "c"), H("7", "h")>> >>,
    << <<H("2", "h"), H("3", "h")>>,
       <<H("A", "s"), H("K", "h"), H("Q", "d"), H("J", "c"), H("10", "s")>> >>,
    << <<H("A", "s"), H("A", "h")>>, <<>> >>,
    << <<H("8", "s"), H("9", "d")>>, <<H("A", "c")>> >>,
    << <<H("7", "c"), H("7", "d")>>, <<H("A", "h"), H("K", "d")>> >>,
    << <<H("J", "s"), H("10", "s")>>, <<H("9", "s"), H("8", "s"), H("2", "h")>> >> }

OutsInit ==
  /\ \E inp \in OutsInputs : hole_cards = inp[1] /\ community_cards = inp[2]
  /\ num_opponents = 0 /\ num_simulations = 0
  /\ deck = <<>> /\ current_hand_type = -1 /\ scan = 0
  /\ improving_cards = <<>> /\ opc = "start" /\ outs_result = NoResult
  /\ EvalIdle /\ SimIdle
  /\ DeckIdle /\ SeedIdle /\ UiIdle

\* the early return at the river
OutsAtRiver ==
  /\ opc = "start"
  /\ AtRiver(community_cards)
  /\ outs_result' = [outs |-> 0, description |-> <<"already at the river">>]
  /\ opc' = "done"
  /\ UNCHANGED <<deck, current_hand_type, scan, improving_cards,
                 evalVars, inputVars, simVars,
                 deckVars, seedVars, uiVars>>

\* the deck without the known cards, and the current category
OutsBegin ==
  /\ opc = "start"
  /\ ~AtRiver(community_cards)
  /\ deck' = remove_cards(NewDeck, hole_cards \o community_cards)
  /\ current_hand_type' = evaluate_hand(hole_cards \o community_cards)[1]
  /\ improving_cards' = <<>>
  /\ scan' = 0
  /\ opc' = "scan"
  /\ UNCHANGED <<outs_result, evalVars, inputVars, simVars,
                 deckVars, seedVars, uiVars>>

\* one pass of the loop over deck.cards
OutsTest ==
  /\ opc = "scan"
  /\ scan < Len(deck)
  /\ LET card == deck[scan + 1]
         test_cards == (hole_cards \o community_cards) \o <<card>>
         new_hand_type == evaluate_hand(test_cards)[1]
     IN  improving_cards' =
           IF Improves(new_hand_type, current_hand_type)
             THEN Append(improving_cards, card)
             ELSE improving_cards
  /\ scan' = scan + 1
  /\ UNCHANGED <<deck, current_hand_type, opc, outs_result,
                 evalVars, inputVars, simVars,
                 deckVars, seedVars, uiVars>>

\* the return after the loop; immediate_odds is <<outs, remaining_cards>>
OutsReturn ==
  /\ opc = "scan"
  /\ scan = Len(deck)
  /\ LET outs == Len(improving_cards)
         remaining_cards == Len(deck)
     IN  outs_result' =
           [outs |-> outs,
            immediate_odds |-> IF remaining_cards > 0 THEN <<outs, remaining_cards>>
                                                      ELSE <<0, 1>>,
            improving_cards |-> Prefix(improving_cards, SampleSize),
            description |-> <<"out cards can improve the hand", outs>>]
  /\ opc' = "done"
  /\ UNCHANGED <<deck, current_hand_type, scan, improving_cards,
                 evalVars, inputVars, simVars,
                 deckVars, seedVars, uiVars>>

OutsNext == OutsAtRiver \/ OutsBegin \/ OutsTest \/ OutsReturn

SpecOuts == OutsInit /\ [][OutsNext]_vars

(***************************************************************************)
(* class Deck on its own: construction, remove_cards and draw              *)
(***************************************************************************)

\* the largest n Deck.draw is called with
MaxDraw == 3

\* the thirteen cards of a suit from the rank at position lo on
SuitFrom(su, lo) == [i \in 1..(Len(RANKS) - lo + 1) |-> H(RANKS[i + lo - 1], su)]

\* the lists remove_cards is called with: whole suits, single cards, a card
\* twice in one list, the empty list and a card no deck holds
RemoveArgs ==
  { SuitFrom("s", 1), SuitFrom("h", 1), SuitFrom("d", 1), SuitFrom("c", 3),
    <<H("2", "c")>>, <<H("3", "c"), H("3", "c")>>, <<H("A", "s"), H("K", "h")>>,
    <<>>, <<H("A", "x")>> }

\* a sample that is cut down to the cards there are
sample_truncated(population, k) ==
  {[returned |-> s] :
     s \in draw(population, IF k > Len(population) THEN Len(population) ELSE k)}

\* random.sample(population, k): k cards of the population, ValueError when
\* the sample is larger than the population
random_sample(population, k) ==
  IF k > Len(population)
    THEN {[raised |-> "ValueError"]}
    ELSE {[returned |-> s] : s \in draw(population, k)}

\* deck = Deck()
DeckInit ==
  /\ deck_cards = NewDeck
  /\ removed = {}
  /\ last_call = [op |-> "Deck"]
  /\ draw_result = NoResult
  /\ EvalIdle /\ NoInput /\ SimIdle /\ OutsIdle /\ SeedIdle /\ UiIdle

\* deck.remove_cards(cs)
DeckRemove ==
  /\ \E cs \in RemoveArgs :
       /\ deck_cards' = remove_cards(deck_cards, cs)
       /\ removed' = removed \cup SeqRange(cs)
       /\ last_call' = [op |-> "remove_cards", cards |-> cs]
  /\ draw_result' = NoResult
  /\ UNCHANGED <<evalVars, inputVars, simVars, outsVars, seedVars, uiVars>>

\* deck.draw(n)
DeckDraw ==
  /\ \E n \in 0..MaxDraw :
       /\ draw_result' \in random_sample(deck_cards, n)
       /\ last_call' = [op |-> "draw", n |-> n]
  /\ UNCHANGED <<deck_cards, removed,
                 evalVars, inputVars, simVars, outsVars, seedVars, uiVars>>

DeckNext == DeckRemove \/ DeckDraw

SpecDeck == DeckInit /\ [][DeckNext]_vars

(***************************************************************************)
(* The card picker of app.py: create_card_grid and the stage selector       *)
(***************************************************************************)

\* how many cards of the grid the model clicks on
UiDeckSize == 6

\* the cards of the grid that are clicked, in the grid's order
UiCards == Prefix(NewDeck, UiDeckSize)

\* the options of the stage selector (translated); the first is the default
Stages == <<"preflop", "flop", "turn", "river">>

\* num_cards_map
num_cards_map == [s \in SeqRange(Stages) |->
                    CASE s = "preflop" -> 0
                      [] s = "flop" -> 3
                      [] s = "turn" -> 4
                      [] s = "river" -> 5]

\* max_cards of the hole-card grid
HoleLimit == 2

\* f"{c.rank}{c.suit}"
card_str(c) == <<c.rank, c.suit>>

\* set(f"{c.rank}{c.suit}" for c in selected)
str_set(selected) == {card_str(selected[i]) : i \in 1..Len(selected)}

\* the card's cell is a button that can be clicked: it is not greyed out as
\* a card of the other grid, and it is selected or one more card can be added
can_click(current, other, max_cards, card) ==
  /\ card_str(card) \notin str_set(other)
  /\ \/ card_str(card) \in str_set(current)
     \/ Cardinality(str_set(current)) < max_cards

\* what a click on the card's button makes of the grid's list
after_click(current, card) ==
  IF card_str(card) \in str_set(current)
    THEN SelectSeq(current, LAMBDA c : card_str(c) # card_str(card))
    ELSE Append(current, card)

\* the run of main() that follows every event: before the flop the
\* community cards are emptied
after_rerun(community, stage) ==
  IF num_cards_map[stage] > 0 THEN community ELSE <<>>

UiInit ==
  /\ selected_hole_cards = <<>>
  /\ selected_community_cards = <<>>
  /\ game_stage = Stages[1]
  /\ EvalIdle /\ NoInput /\ SimIdle /\ OutsIdle /\ DeckIdle /\ SeedIdle

\* a click on a card of the hole-card grid
ClickHoleCard ==
  /\ \E i \in 1..Len(UiCards) :
       /\ can_click(selected_hole_cards, selected_community_cards, HoleLimit, UiCards[i])
       /\ selected_hole_cards' = after_click(selected_hole_cards, UiCards[i])
  /\ selected_community_cards' = after_rerun(selected_community_cards, game_stage)
  /\ UNCHANGED <<game_stage, evalVars, inputVars, simVars, outsVars, deckVars, seedVars>>

\* a click on a card of the community-card grid, shown from the flop on
ClickCommunityCard ==
  /\ num_cards_map[game_stage] > 0
  /\ \E i \in 1..Len(UiCards) :
       /\ can_click(selected_community_cards, selected_hole_cards,
                    num_cards_map[game_stage], UiCards[i])
       /\ selected_community_cards' =
            after_rerun(after_click(selected_community_cards, UiCards[i]), game_stage)
  /\ UNCHANGED <<selected_hole_cards, game_stage,
                 evalVars, inputVars, simVars, outsVars, deckVars, seedVars>>

\* the clear button of the hole-card grid, shown when a card is selected
ClearHole ==
  /\ selected_hole_cards # <<>>
  /\ selected_hole_cards' = <<>>
  /\ selected_community_cards' = after_rerun(selected_community_cards, game_stage)
  /\ UNCHANGED <<game_stage, evalVars, inputVars, simVars, outsVars, deckVars, seedVars>>

\* the clear button of the community-card grid
ClearCommunity ==
  /\ num_cards_map[game_stage] > 0
  /\ selected_community_cards # <<>>
  /\ selected_community_cards' = <<>>
  /\ UNCHANGED <<selected_hole_cards, game_stage,
                 evalVars, inputVars, simVars, outsVars, deckVars, seedVars>>

\* another option of the stage selector is chosen
ChangeStage ==
  /\ \E i \in 1..Len(Stages) :
       /\ Stages[i] # game_stage
       /\ game_stage' = Stages[i]
       /\ selected_community_cards' = after_rerun(selected_community_cards, Stages[i])
  /\ UNCHANGED <<selected_hole_cards,
                 evalVars, inputVars, simVars, outsVars, deckVars, seedVars>>

UiNext == ClickHoleCard \/ ClickCommunityCard \/ ClearHole \/ ClearCommunity \/ ChangeStage

SpecUi == UiInit /\ [][UiNext]_vars

(***************************************************************************)
(* The ordering of hand ranks as the specification states it               *)
(***************************************************************************)

\* category first, then the tie-break sequences element-wise, higher wins
RankAbove(x, y) ==
  \/ x[1] > y[1]
  \/ /\ x[1] = y[1]
     /\ \E i \in 1..Len(x[2]) :
          /\ i <= Len(y[2])
          /\ x[2][i] > y[2][i]
          /\ \A j \in 1..(i - 1) : x[2][j] = y[2][j]

\* the five-card sub-hands of a hand, each in the order of the hand
FiveCardSubsets(hand) ==
  { SelectSeq(hand, LAMBDA c : c \in S) :
      S \in {T \in SUBSET SeqRange(hand) : Cardinality(T) = HandSize} }

ValuesOf(hand) == {hand[i].value : i \in 1..Len(hand)}

SuitsOf(hand) == {hand[i].suit : i \in 1..Len(hand)}

\* C1: for a duplicate-free hand of 5 to 7 cards evaluate_hand returns the
\* rank of one of its 5-card subsets, and no 5-card subset ranks strictly
\* above it (category first, then the keys element-wise).
C1_BestOfAllSubsets ==
  epc = "done" =>
    LET ranked == {evaluate_five_cards(s) : s \in FiveCardSubsets(cards)}
    IN  /\ best_hand \in ranked
        /\ \A r \in ranked : ~RankAbove(r, best_hand)

\* a 7-card hand whose first combination has the best category but not the best key
C1_Witness ==
  /\ epc = "done"
  /\ Len(cards) = 7
  /\ best_hand[1] = evaluate_five_cards(SubSeq(cards, 1, HandSize))[1]
  /\ RankAbove(best_hand, evaluate_five_cards(SubSeq(cards, 1, HandSize)))

\* the cards of a hand in the order of PermDeck
DeckOrder(hand) == SelectSeq(PermDeck, LAMBDA c : c \in SeqRange(hand))

\* C2: every ordering of a hand of 5 to 7 distinct cards evaluates to the
\* (category, key) of the same cards in deck order, so any two orderings of
\* one hand evaluate alike.
C2_OrderInvariant ==
  epc = "done" => best_hand = evaluate_hand(DeckOrder(cards))

\* a 7-card hand, not in deck order, evaluated as a full house
C2_Witness ==
  /\ epc = "done"
  /\ Len(cards) = 7
  /\ cards # DeckOrder(cards)
  /\ cards[1].value < cards[7].value
  /\ best_hand[1] = 6

\* A, 2, 3, 4, 5 of mixed suits
IsMixedWheel(hand) ==
  /\ Len(hand) = HandSize
  /\ ValuesOf(hand) = {12, 0, 1, 2, 3}
  /\ Cardinality(SuitsOf(hand)) > 1

\* the mixed-suit 2-3-4-5-6 hands among the inputs
SixHighStraights ==
  {h \in EvalHands : /\ Len(h) = HandSize
                     /\ ValuesOf(h) = 0..4
                     /\ Cardinality(SuitsOf(h)) > 1}

\* five distinct rank values that form no straight, the wheel included
NoStraightRanks ==
  {R \in SUBSET (0..(Len(RANKS) - 1)) :
     /\ Cardinality(R) = HandSize
     /\ R # {12, 0, 1, 2, 3}
     /\ \E v \in R : v + 1 \notin R /\ \E w \in R : w > v}

\* every rank set with no pair and no straight, dealt in two or in four suits
HighCardHands ==
  UNION { LET rs == SortedAsc(SelectSeq([i \in 1..Len(RANKS) |-> i - 1],
                                        LAMBDA v : v \in R))
          IN  { [k \in 1..HandSize |-> Card(RANKS[rs[k] + 1], SUITS[((k * m) % 4) + 1])] :
                  m \in {1, 2} }
        : R \in NoStraightRanks }

HighCardRanks == {evaluate_hand(h) : h \in HighCardHands}

SixHighRanks == {evaluate_hand(h) : h \in SixHighStraights}

\* C3: A-2-3-4-5 of mixed suits is a straight (category 4) that ranks
\* strictly below the mixed-suit 2-3-4-5-6 straight and strictly above every
\* hand with no pair, no straight and no flush.
C3_WheelStraight ==
  (epc = "done" /\ IsMixedWheel(cards)) =>
    /\ best_hand[1] = 4
    /\ SixHighRanks # {}
    /\ \A s \in SixHighRanks : RankAbove(s, best_hand)
    /\ \A h \in HighCardRanks : RankAbove(best_hand, h)

\* a mixed-suit wheel has been evaluated
C3_Witness ==
  /\ epc = "done"
  /\ IsMixedWheel(cards)
  /\ best_hand[2] = WheelKey

(***************************************************************************)
(* The equity simulation                                                   *)
(***************************************************************************)

\* the counters add up to the trials completed
CountersSum == wins + ties + losses = trial

\* a completed trial adds one to exactly one counter
TrialCounted ==
  trial' = trial + 1 =>
    <<wins', ties', losses'>> \in
      {<<wins + 1, ties, losses>>, <<wins, ties + 1, losses>>, <<wins, ties, losses + 1>>}

\* at return every trial is counted and the three rates add up to one
RatesSumToOne ==
  spc = "done" =>
    /\ num_simulations >= 1
    /\ wins + ties + losses = num_simulations
    /\ sim_result.win_rate[2] = num_simulations
    /\ sim_result.tie_rate[2] = num_simulations
    /\ sim_result.loss_rate[2] = num_simulations
    /\ sim_result.win_rate[1] + sim_result.tie_rate[1] + sim_result.loss_rate[1]
         = num_simulations

\* C4: after every trial wins + ties + losses is the number of completed
\* trials, each trial adding one to exactly one counter, so that at return
\* the counters add up to num_simulations and the three rates to 1.
C4_CountersSum == [](CountersSum /\ RatesSumToOne) /\ [][TrialCounted]_vars

\* a call of two trials has returned after a win and a loss
C4_Witness ==
  /\ spc = "done"
  /\ num_simulations = 2
  /\ sim_result.win_rate[1] = 1
  /\ sim_result.loss_rate[1] = 1

\* the highest rank among the hands, in the ordering of the specification
TopRank(hands) ==
  CHOOSE h \in SeqRange(hands) : \A g \in SeqRange(hands) : ~RankAbove(g, h)

\* C5: a trial counts as a win iff the caller's rank is strictly above the
\* highest rank among the opponents, as a tie iff it equals that rank, and
\* as a loss otherwise.
C5_TrialOutcome ==
  [][trial' = trial + 1 =>
       LET top == TopRank(opponent_hands)
       IN  /\ (wins' = wins + 1) <=> RankAbove(my_hand, top)
           /\ (ties' = ties + 1) <=> (my_hand = top)
           /\ (losses' = losses + 1) <=> (~RankAbove(my_hand, top) /\ my_hand # top)]_vars

\* the one trial so far was lost although the caller beats one of two opponents
C5_Witness ==
  /\ spc = "loop"
  /\ trial = 1
  /\ losses = 1
  /\ num_opponents = 2
  /\ \E i \in 1..Len(opponent_hands) : RankAbove(my_hand, opponent_hands[i])

\* the cards of a list of lists, in order
RECURSIVE Flatten(_)
Flatten(lists) == IF lists = <<>> THEN <<>> ELSE Head(lists) \o Flatten(Tail(lists))

NoDuplicates(hand) == \A i, j \in 1..Len(hand) : i # j => ~CardEq(hand[i], hand[j])

\* C6: the cards dealt in a trial (the drawn community cards and every
\* opponent's two hole cards) are pairwise distinct and none of them is one
\* of the caller's hole cards or of the known community cards.
C6_DistinctDeal ==
  LET dealt == remaining_community \o Flatten(opponent_holes)
      known_cards == hole_cards \o community_cards
  IN  /\ NoDuplicates(dealt)
      /\ \A i \in 1..Len(dealt) : \A j \in 1..Len(known_cards) :
           ~CardEq(dealt[i], known_cards[j])
      /\ \A i \in 1..Len(opponent_holes) : Len(opponent_holes[i]) = HoleSize

\* a second trial has drawn community cards and dealt two opponents
C6_Witness ==
  /\ spc = "opponents"
  /\ trial = 1
  /\ remaining_community # <<>>
  /\ Len(opponent_holes) = 2

\* C7: the current_hand of the result is the category name of hole + known
\* community cards when these are at least five, and the "no complete hand
\* yet" label when they are fewer.
C7_CurrentHandLabel ==
  spc = "done" =>
    sim_result.current_hand =
      IF Len(hole_cards \o community_cards) >= MinHand
        THEN hand_name(evaluate_hand(hole_cards \o community_cards)[1])
        ELSE NoCompleteHand

(***************************************************************************)
(* The outs scan                                                           *)
(***************************************************************************)

\* the 52 cards without hole + community
RemainingDeck ==
  {c \in SeqRange(NewDeck) :
     \A i \in 1..Len(hole_cards \o community_cards) :
       ~CardEq(c, (hole_cards \o community_cards)[i])}

\* the category evaluate_hand gives to hole + community
CurrentCategory == evaluate_hand(hole_cards \o community_cards)[1]

\* the category evaluate_hand gives to hole + community + card
CategoryWith(card) == evaluate_hand((hole_cards \o community_cards) \o <<card>>)[1]

\* the remaining cards that raise the category
CategoryOuts == {c \in RemainingDeck : CategoryWith(c) > CurrentCategory}

\* C8: below five community cards a card of the 52 minus hole + community
\* is counted iff it raises the category of evaluate_hand strictly; outs is
\* the number of such cards over the whole remaining deck and
\* immediate_odds is outs over the size of the remaining deck.
C8_OutsAreCategoryJumps ==
  (opc = "done" /\ Len(community_cards) < BoardSize) =>
    /\ SeqRange(improving_cards) = CategoryOuts
    /\ Len(improving_cards) = Cardinality(CategoryOuts)
    /\ outs_result.outs = Cardinality(CategoryOuts)
    /\ Cardinality(RemainingDeck) = Len(NewDeck) - Len(hole_cards \o community_cards)
    /\ outs_result.immediate_odds = <<outs_result.outs, Cardinality(RemainingDeck)>>

\* a scan has ended that counted some card and left out a card that raises
\* the key within the category
C8_Witness ==
  /\ opc = "done"
  /\ Len(community_cards) = 4
  /\ outs_result.outs > 0
  /\ \E c \in RemainingDeck :
       /\ c \notin SeqRange(improving_cards)
       /\ RankAbove(evaluate_hand((hole_cards \o community_cards) \o <<c>>),
                    evaluate_hand(hole_cards \o community_cards))

\* C9: with five community cards calculate_outs returns outs = 0 and has
\* neither built nor scanned a deck.
C9_RiverHasNoOuts ==
  (opc = "done" /\ Len(community_cards) = BoardSize) =>
    /\ outs_result.outs = 0
    /\ deck = <<>>
    /\ scan = 0
    /\ improving_cards = <<>>

\* a river call has returned although a remaining card would raise the category
C9_Witness ==
  /\ opc = "done"
  /\ Len(community_cards) = BoardSize
  /\ outs_result.outs = 0
  /\ CategoryOuts # {}

\* C10: every result of calculate_outs carries outs, immediate_odds,
\* improving_cards and description, and the sample holds the first
\* min(outs, 10) counted cards.
C10_CompleteResult ==
  opc = "done" =>
    /\ DOMAIN outs_result = {"outs", "immediate_odds", "improving_cards", "description"}
    /\ Len(outs_result.improving_cards) =
         (IF outs_result.outs < SampleSize THEN outs_result.outs ELSE SampleSize)
    /\ SeqRange(outs_result.improving_cards) \subseteq SeqRange(improving_cards)

(***************************************************************************)
(* C11, C12: Deck                                                          *)
(***************************************************************************)

\* the deck holds the 52 cards less every card passed to remove_cards, once each
DeckIsFullLessRemoved ==
  /\ NoDuplicates(deck_cards)
  /\ SeqRange(deck_cards) = SeqRange(NewDeck) \ removed
  /\ Len(deck_cards) = 52 - Cardinality(removed \cap SeqRange(NewDeck))
  /\ last_call.op = "Deck" => Len(deck_cards) = 52

\* a remove_cards call none of whose cards is in the deck leaves the deck as it was
AbsentRemovalIsNoOp ==
  (/\ last_call'.op = "remove_cards"
   /\ last_call' # last_call \/ deck_cards' # deck_cards
   /\ SeqRange(last_call'.cards) \cap SeqRange(deck_cards) = {})
    => deck_cards' = deck_cards

\* C11: a new Deck holds 52 pairwise distinct cards; after any sequence of
\* remove_cards calls the deck has no duplicates and is the 52 cards less the
\* set of all cards passed so far, its size 52 less the number of distinct
\* cards removed; removing a card that is not in the deck, or the same card
\* again, leaves the deck unchanged
C11_DeckContents == []DeckIsFullLessRemoved /\ [][AbsentRemovalIsNoOp]_vars

\* a card was removed a second time, after a card no deck holds and whole suits
C11_Witness ==
  /\ last_call.op = "remove_cards"
  /\ last_call.cards = <<H("3", "c"), H("3", "c")>>
  /\ H("A", "x") \in removed
  /\ {H("3", "c"), H("A", "s"), H("K", "h")} \subseteq removed
  /\ Len(deck_cards) = 52 - 13 - 2

\* what a draw gives: n distinct cards of the deck, or an error when too few remain
DrawOutcome ==
  last_call.op = "draw" =>
    IF last_call.n <= Len(deck_cards)
      THEN /\ DOMAIN draw_result = {"returned"}
           /\ Len(draw_result.returned) = last_call.n
           /\ NoDuplicates(draw_result.returned)
           /\ SeqRange(draw_result.returned) \subseteq SeqRange(deck_cards)
      ELSE DOMAIN draw_result = {"raised"}

\* C12: Deck.draw(n) never changes the deck; with n at most the cards that
\* remain it returns n pairwise distinct cards of the deck, and with n above
\* that it ends in an error and never returns a shorter list
C12_DrawLeavesDeck ==
  []DrawOutcome /\ [][last_call'.op = "draw" => deck_cards' = deck_cards]_vars

\* three cards were asked of a deck of two
C12_Witness ==
  /\ last_call.op = "draw"
  /\ last_call.n = 3
  /\ Len(deck_cards) = 2
  /\ DOMAIN draw_result = {"raised"}

(***************************************************************************)
(* C13: arguments outside the contract                                     *)
(***************************************************************************)

\* the violations of the caller's contract
BadInput ==
  \/ Len(hole_cards) # 2
  \/ Len(community_cards) > 5
  \/ ~NoDuplicates(hole_cards \o community_cards)
  \/ 2 * num_opponents + (5 - Len(community_cards)) >
       52 - Len(hole_cards \o community_cards)

\* C13: a call of calculate_win_probability whose hole cards are not exactly
\* 2, whose community cards are outside 0-5, that repeats a card across hole
\* and community cards, or whose opponents need more cards than remain, ends
\* in an error before the simulation begins: no card is drawn, no hand
\* evaluated, no counter incremented and no result returned
C13_RejectsBadInput ==
  BadInput =>
    /\ remaining_community = <<>> /\ opponent_holes = <<>>
    /\ my_hand = NoHand /\ opponent_hands = <<>>
    /\ wins = 0 /\ ties = 0 /\ losses = 0 /\ trial = 0
    /\ sim_result = NoResult

(***************************************************************************)
(* C14: the number of cards given to evaluate_hand                         *)
(***************************************************************************)

\* C14: evaluate_hand given fewer than 5 or more than 7 cards ends in an
\* InvalidCardCount error and returns no (category, key) value
C14_InvalidCardCount ==
  (epc = "done" /\ (Len(cards) < 5 \/ Len(cards) > 7)) => best_hand = NoHand

(***************************************************************************)
(* C15: seeded calls                                                       *)
(***************************************************************************)

\* C15: with the same seed, two calls of calculate_win_probability with the
\* same hole cards, community cards, opponent count and trial count give the
\* same win, tie and loss counts and the same current-hand label
C15_SeededCallsAgree ==
  (spc = "done" /\ first_result # NoResult) => sim_result = first_result

\* the second of two seeded calls returned, each with a won and a lost trial
C15_Witness ==
  /\ spc = "done"
  /\ first_result # NoResult
  /\ sim_result = first_result
  /\ sim_result.win_rate = <<1, 2>>
  /\ sim_result.loss_rate = <<1, 2>>

(***************************************************************************)
(* C16: the category and key of five cards as poker defines them           *)
(***************************************************************************)

\* how many cards of the hand have the value v
CountOf(hand, v) == Cardinality({i \in 1..Len(hand) : hand[i].value = v})

IsFlushHand(hand) == Cardinality(SuitsOf(hand)) = 1

IsWheelHand(hand) == ValuesOf(hand) = {12, 0, 1, 2, 3}

\* five consecutive values, the ace also counting below the 2
IsStraightHand(hand) ==
  \/ IsWheelHand(hand)
  \/ \E lo \in 0..8 : ValuesOf(hand) = lo..(lo + 4)

\* the values that occur n times
ValuesWithCount(hand, n) == {v \in ValuesOf(hand) : CountOf(hand, v) = n}

\* the first category of the chain that the hand matches
StdCategory(hand) ==
  IF IsFlushHand(hand) /\ ValuesOf(hand) = 8..12 THEN 9
  ELSE IF IsFlushHand(hand) /\ IsStraightHand(hand) THEN 8
  ELSE IF ValuesWithCount(hand, 4) # {} THEN 7
  ELSE IF ValuesWithCount(hand, 3) # {} /\ ValuesWithCount(hand, 2) # {} THEN 6
  ELSE IF IsFlushHand(hand) THEN 5
  ELSE IF IsStraightHand(hand) THEN 4
  ELSE IF ValuesWithCount(hand, 3) # {} THEN 3
  ELSE IF Cardinality(ValuesWithCount(hand, 2)) = 2 THEN 2
  ELSE IF Cardinality(ValuesWithCount(hand, 2)) = 1 THEN 1
  ELSE 0

\* v decides before w: it occurs more often, or as often and is higher
DecidesBefore(hand, v, w) ==
  \/ CountOf(hand, v) > CountOf(hand, w)
  \/ CountOf(hand, v) = CountOf(hand, w) /\ v > w

\* the deciding ranks first, then the kickers from high to low; with no rank
\* repeated these are the five ranks from high to low, the wheel's ace last
StdKey(hand) ==
  LET vals == ValuesOf(hand)
  IN  IF IsWheelHand(hand) THEN <<3, 2, 1, 0, -1>>
      ELSE [k \in 1..Cardinality(vals) |->
              CHOOSE v \in vals :
                Cardinality({w \in vals : DecidesBefore(hand, w, v)}) = k - 1]

\* C16: for five distinct cards _evaluate_five_cards returns the first matching
\* category of the chain royal flush 9 > straight flush 8 > quads 7 > full
\* house 6 > flush 5 > straight 4 > trips 3 > two pair 2 > one pair 1 > high
\* card 0, and a key that lists the deciding ranks first and then the kickers
\* in descending order, the ace lowest in the wheel, so that hands of one
\* category compare by key as poker ranks them
C16_CategoryAndKey ==
  epc = "done" => best_hand = <<StdCategory(cards), StdKey(cards)>>

\* threes and twos with an ace: the pairs come before the higher kicker
C16_Witness ==
  /\ epc = "done"
  /\ Len(cards) = 5
  /\ best_hand = <<2, <<1, 0, 12>>>>

(***************************************************************************)
(* C17: the card picker                                                    *)
(***************************************************************************)

\* C17: after any sequence of card clicks, clear clicks and stage changes the
\* selected community cards are at most the card count of the selected stage
\* (0 pre-flop, 3 flop, 4 turn, 5 river), the selected hole cards are at most
\* 2, and no card is selected both as a hole card and as a community card
C17_PickerWithinLimits ==
  /\ Len(selected_community_cards) <= num_cards_map[game_stage]
  /\ Len(selected_hole_cards) <= 2
  /\ str_set(selected_hole_cards) \cap str_set(selected_community_cards) = {}

====
